---- MODULE Spec2Model ----
(***************************************************************************)
(* Model of broot's flat tree (src/src/flat_tree.rs): a fixed array of     *)
(* lines plus a selection index, with key-based selection, cyclic          *)
(* movement and pattern-driven selection.                                  *)
(*                                                                         *)
(* Strings are sequences of code points (a key "ab" is <<97, 98>>).        *)
(* Indices are 0-based as in the source; lines[i] of the source is         *)
(* lines[i + 1] here.                                                      *)
(***************************************************************************)
EXTENDS Integers, Sequences, FiniteSets, TLC

VARIABLES
    lines,            \* Tree.lines: the sequence of TreeLine records
    selection,        \* Tree.selection: usize index into lines
    pc,               \* "idle": between calls; "loop": inside move_selection's loop;
                      \* "panic": the thread has panicked
    dy,               \* the argument of the move_selection call in progress (0 when idle)
    tick,             \* parity of the iterations done by the call in progress (0 when idle)
    op,               \* the last operation called ("new" before any call)
    ret,              \* what the last operation returned: "true", "false", "unit", "none"
    s0,               \* history: selection at the start of the current run of calls
    k,                \* history: number of calls completed in that run
    arg,              \* the argument of a query or of a run of calls (<<>> when unused)
    out               \* the value a query returned, or the selections a run of calls
                      \* has visited (<<>> when unused)

vars == <<lines, selection, pc, dy, tick, op, ret, s0, k, arg, out>>

-----------------------------------------------------------------------------
(* Bounds of the model *)

MaxLines == 3      \* at most this many lines in a tree
MaxRank == 2       \* sibling ranks 1..MaxRank
MaxScore == 2      \* pattern scores 1..MaxScore
MaxDelta == 5      \* small deltas -MaxDelta..MaxDelta
MaxK == 5          \* longest run of calls that is followed

(* Program constants *)

I32Max == 2147483647   \* the largest dy: i32
UsizeBits == 64        \* width of usize (selection, lines.len())

-----------------------------------------------------------------------------
(* LineType *)

File(name) == [type |-> "File", name |-> name, unlisted |-> 0]
Dir(name, unlisted) == [type |-> "Dir", name |-> name, unlisted |-> unlisted]
Pruning(unlisted) == [type |-> "Pruning", name |-> "", unlisted |-> unlisted]

(* The file system seen by fs::metadata: what each path is.  A path is     *)
(* modelled by its final component.                                        *)
Paths == {"foo", "bar"}
Metadata(path) == IF path = "foo" THEN "dir" ELSE "file"

(* Mutant of index_to_char: the digits arm is one code point too high. *)
index_to_char_digit_off(i) ==
    IF i >= 1 /\ i =< 26 THEN 96 + (i % 256)
    ELSE IF i >= 27 /\ i =< 36 THEN 48 - 26 + (i % 256)
    ELSE IF i >= 37 /\ i =< 60 THEN 64 - 36 + (i % 256)
    ELSE 32

(* fn index_to_char(i: usize) -> char, as a code point *)
index_to_char(i) ==
    IF i >= 1 /\ i =< 26 THEN 96 + (i % 256)
    ELSE IF i >= 27 /\ i =< 36 THEN 47 - 26 + (i % 256)
    ELSE IF i >= 37 /\ i =< 60 THEN 64 - 36 + (i % 256)
    ELSE 32

(* Path::file_name(): the final component, none for a path ending in ".." *)
file_name(path) == IF path = ".." THEN "<none>" ELSE path

(* Mutant of create: has_error is not raised when fs::metadata fails. *)
create_lost_error(path, depth, meta) ==
    LET name == IF file_name(path) = "<none>" THEN "???" ELSE file_name(path) IN
    [ left_branchs |-> [i \in 1..depth |-> FALSE],
      key          |-> <<>>,
      path         |-> path,
      depth        |-> depth,
      content      |-> IF meta = "dir" THEN Dir(name, 0) ELSE File(name),
      has_error    |-> FALSE ]

(* TreeLine::create(path, depth); meta is the outcome of fs::metadata:     *)
(* "dir", "file" or "err"                                                  *)
create(path, depth, meta) ==
    LET name == IF file_name(path) = "<none>" THEN "???" ELSE file_name(path) IN
    [ left_branchs |-> [i \in 1..depth |-> FALSE],
      key          |-> <<>>,
      path         |-> path,
      depth        |-> depth,
      content      |-> IF meta = "dir" THEN Dir(name, 0) ELSE File(name),
      has_error    |-> (meta = "err") ]

(* Mutant of fill_key_from: reads v[i] instead of v[i + 1], so the ignored *)
(* entry 0 of the path is encoded and the last rank is not.                *)
RECURSIVE fill_key_from_zero(_, _, _, _)
fill_key_from_zero(key, v, i, depth) ==
    IF i >= depth THEN key
    ELSE fill_key_from_zero(Append(key, index_to_char(v[i + 1])), v, i + 1, depth)

(* TreeLine::fill_key(v, depth): appends index_to_char(v[i + 1]) for       *)
(* i in 0..depth-1 (v is 0-based in the source, 1-based here)              *)
RECURSIVE fill_key_from(_, _, _, _)
fill_key_from(key, v, i, depth) ==
    IF i >= depth THEN key
    ELSE fill_key_from(Append(key, index_to_char(v[i + 2])), v, i + 1, depth)

fill_key(line, v, depth) ==
    [line EXCEPT !.key = fill_key_from(line.key, v, 0, depth)]

(* TreeLine::name(): the name of a File or Dir, none for Pruning *)
NoName == "<none>"
name(line) ==
    IF line.content.type = "Dir" THEN line.content.name
    ELSE IF line.content.type = "File" THEN line.content.name
    ELSE NoName

-----------------------------------------------------------------------------
(* The external tree builder: the root at depth 0, every other line at     *)
(* depth 1 under it with a sibling rank; a line under the root may be      *)
(* turned into a Pruning placeholder.                                      *)

CreatedLines(depth) == { create(p, depth, Metadata(p)) : p \in Paths }
PrunedLines(depth) ==
    { [create("bar", depth, Metadata("bar")) EXCEPT !.content = Pruning(1)] }

RootLines == { fill_key(l, <<0>>, 0) : l \in CreatedLines(0) }
ChildLines ==
    UNION { { fill_key(l, <<0, r>>, 1) : l \in CreatedLines(1) \cup PrunedLines(1) }
            : r \in 1..MaxRank }

Trees ==
    UNION { { <<root>> \o rest : root \in RootLines, rest \in [1..(n - 1) -> ChildLines] }
            : n \in 1..MaxLines }

(* The external pattern matcher: test(name) is an Option<Match>, <<>> for  *)
(* None and <<score>> for Some(m) with m.score = score, a positive integer.*)
Scores == 1..MaxScore
Patterns == [Paths -> {<<>>} \cup { <<s>> : s \in Scores }]
test(pattern, nm) == pattern[nm]

(* Arguments of the calls *)
KeyArgs == {<<>>} \cup { <<index_to_char(r)>> : r \in 1..MaxRank }
Deltas == (-MaxDelta..MaxDelta) \cup {I32Max}

-----------------------------------------------------------------------------
len == Len(lines)
Line(i) == lines[i + 1]
IsPruning(i) == Line(i).content.type = "Pruning"

(* a Tree as the builder hands it over: the selection starts on the root *)
NewTree(trees) ==
    /\ lines \in trees
    /\ selection = 0
    /\ pc = "idle"
    /\ dy = 0
    /\ tick = 0
    /\ op = "new"
    /\ ret = "none"

Init ==
    /\ NewTree(Trees)
    /\ s0 = 0
    /\ k = 0
    /\ arg = <<>>
    /\ out = <<>>

-----------------------------------------------------------------------------
(* Mutant of try_select_scan: the scan does not stop at the first match,   *)
(* so the last matching line wins.                                         *)
RECURSIVE try_select_scan_last(_, _)
try_select_scan_last(i, key) ==
    IF i >= len THEN -1
    ELSE IF try_select_scan_last(i + 1, key) >= 0 THEN try_select_scan_last(i + 1, key)
    ELSE IF key = Line(i).key THEN i
    ELSE -1

(* Mutant of try_select_scan: the scan starts at line 1 (1..len for        *)
(* 0..len), so the root is never found.                                    *)
RECURSIVE try_select_scan_from_one(_, _)
try_select_scan_from_one(i, key) ==
    IF i >= len THEN -1
    ELSE IF i >= 1 /\ key = Line(i).key THEN i
    ELSE try_select_scan_from_one(i + 1, key)

(* Tree::try_select(key): the index of the first line whose key equals     *)
(* key, scanning from i; -1 when the loop ends without a match             *)
RECURSIVE try_select_scan(_, _)
try_select_scan(i, key) ==
    IF i >= len THEN -1
    ELSE IF key = Line(i).key THEN i
    ELSE try_select_scan(i + 1, key)

try_select(key) ==
    /\ pc = "idle"
    /\ LET i == try_select_scan(0, key) IN
         IF i >= 0
         THEN selection' = i /\ ret' = "true"
         ELSE selection' = selection /\ ret' = "false"
    /\ op' = "try_select"
    /\ UNCHANGED <<lines, pc, dy, tick>>

-----------------------------------------------------------------------------
(* Tree::move_selection(dy) *)

(* 2^e modulo m, by squaring *)
RECURSIVE Pow2Mod(_, _)
Pow2Mod(e, m) ==
    IF e = 0 THEN 1 % m
    ELSE IF e % 2 = 0
         THEN (Pow2Mod(e \div 2, m) * Pow2Mod(e \div 2, m)) % m
         ELSE (2 * Pow2Mod(e - 1, m)) % m

(* l as i32 + dy: overflows when the sum exceeds I32Max (l >= 0); the      *)
(* wrapped sum is l + dy - 2^32                                            *)
AddI32Overflows(l, d) == d > I32Max - l
AddI32(l, d) ==
    IF AddI32Overflows(l, d)
    THEN ((d - I32Max) + (l - 1)) + (-I32Max - 1)
    ELSE l + d

(* (sel + (t as usize)) % l for an i32 t: a negative t converts to         *)
(* 2^UsizeBits + t, and the usize sum overflows when sel + t >= 0          *)
AddUsizeOverflows(sel, t) == t < 0 /\ sel + t >= 0
AddUsizeMod(sel, t, l) ==
    IF t >= 0 THEN ((sel % l) + (t % l)) % l
    ELSE IF sel + t >= 0 THEN (sel + t) % l
    ELSE (Pow2Mod(UsizeBits, l) + ((sel + t) % l)) % l

(* Mutant of MoveTarget: the selection is clamped to the ends of the tree  *)
(* instead of wrapping around.                                             *)
MoveTarget_Clamped(sel, d) ==
    IF sel + d >= len THEN len - 1
    ELSE IF sel + d < 0 THEN 0
    ELSE sel + d

(* self.selection = (self.selection + (l as i32 + dy) as usize) % l *)
MoveOverflows(sel, d) ==
    AddI32Overflows(len, d) \/ AddUsizeOverflows(sel, AddI32(len, d))
MoveTarget(sel, d) == AddUsizeMod(sel, AddI32(len, d), len)

(* Mutant of Breaks: the catch-all arm breaks the loop too. *)
Breaks_Always(content) == TRUE

(* the match on the selected line's content: Dir and File break the loop *)
Breaks(content) ==
    IF content.type = "Dir" THEN TRUE
    ELSE IF content.type = "File" THEN TRUE
    ELSE FALSE

(* one iteration of the loop, with delta d.  An addition that overflows    *)
(* panics when the build checks overflow and wraps when it does not.       *)
MoveIteration(d) ==
    /\ op' = "move_selection"
    /\ \/ /\ MoveOverflows(selection, d)
          /\ pc' = "panic"
          /\ dy' = d
          /\ tick' = 0
          /\ ret' = "none"
          /\ selection' = selection
       \/ /\ selection' = MoveTarget(selection, d)
          /\ IF Breaks(lines[MoveTarget(selection, d) + 1].content)
             THEN pc' = "idle" /\ dy' = 0 /\ tick' = 0 /\ ret' = "unit"
             ELSE pc' = "loop" /\ dy' = d /\ tick' = 1 - tick /\ ret' = "none"
    /\ UNCHANGED lines

(* the call: enters the loop and runs its first iteration *)
move_selection(d) ==
    /\ pc = "idle"
    /\ MoveIteration(d)

(* every further iteration *)
move_selection_loop ==
    /\ pc = "loop"
    /\ MoveIteration(dy)

-----------------------------------------------------------------------------
(* Mutant of best_match_scan: the running best is replaced on a score that *)
(* equals it (>= for >), so ties go to the latest line.                    *)
RECURSIVE best_match_scan_ge(_, _, _, _)
best_match_scan_ge(idx, best_score, sel, pattern) ==
    IF idx >= len THEN <<best_score, sel>>
    ELSE LET nm == name(Line(idx))
             m == test(pattern, nm)
         IN  IF nm # NoName /\ m # <<>> /\ m[1] >= best_score
             THEN best_match_scan_ge(idx + 1, m[1], idx, pattern)
             ELSE best_match_scan_ge(idx + 1, best_score, sel, pattern)

(* Mutant of best_match_scan: the selection is assigned for every named    *)
(* line, outside the test of the score.                                    *)
RECURSIVE best_match_scan_eager(_, _, _, _)
best_match_scan_eager(idx, best_score, sel, pattern) ==
    IF idx >= len THEN <<best_score, sel>>
    ELSE LET nm == name(Line(idx))
             m == test(pattern, nm)
         IN  IF nm = NoName
             THEN best_match_scan_eager(idx + 1, best_score, sel, pattern)
             ELSE IF m # <<>> /\ m[1] > best_score
             THEN best_match_scan_eager(idx + 1, m[1], idx, pattern)
             ELSE best_match_scan_eager(idx + 1, best_score, idx, pattern)

(* Tree::try_select_best_match(pattern): the scan from line idx on, with   *)
(* the running best_score and selection; yields <<best_score, selection>>  *)
RECURSIVE best_match_scan(_, _, _, _)
best_match_scan(idx, best_score, sel, pattern) ==
    IF idx >= len THEN <<best_score, sel>>
    ELSE LET nm == name(Line(idx))
             m == test(pattern, nm)
         IN  IF nm # NoName /\ m # <<>> /\ m[1] > best_score
             THEN best_match_scan(idx + 1, m[1], idx, pattern)
             ELSE best_match_scan(idx + 1, best_score, sel, pattern)

try_select_best_match(pattern) ==
    /\ pc = "idle"
    /\ LET r == best_match_scan(0, 0, selection, pattern) IN
         /\ selection' = r[2]
         /\ ret' = IF r[1] > 0 THEN "true" ELSE "false"
    /\ op' = "try_select_best_match"
    /\ UNCHANGED <<lines, pc, dy, tick>>

(* Mutant of next_match_scan: the cycle starts on the selected line        *)
(* itself (selection + di for selection + di + 1).                         *)
RECURSIVE next_match_scan_from_current(_, _)
next_match_scan_from_current(di, pattern) ==
    IF di >= len THEN -1
    ELSE LET idx == (selection + di) % len IN
         IF name(Line(idx)) # NoName /\ test(pattern, name(Line(idx))) # <<>>
         THEN idx
         ELSE next_match_scan_from_current(di + 1, pattern)

(* Mutant of next_match_scan: the cycle is one line short (0..len - 1 for  *)
(* 0..len), so the selected line itself is never examined.                 *)
RECURSIVE next_match_scan_skip_current(_, _)
next_match_scan_skip_current(di, pattern) ==
    IF di >= len - 1 THEN -1
    ELSE LET idx == (selection + di + 1) % len IN
         IF name(Line(idx)) # NoName /\ test(pattern, name(Line(idx))) # <<>>
         THEN idx
         ELSE next_match_scan_skip_current(di + 1, pattern)

(* Tree::try_select_next_match(pattern): the index selected by the scan    *)
(* from offset di on; -1 when the full cycle completes without a match     *)
RECURSIVE next_match_scan(_, _)
next_match_scan(di, pattern) ==
    IF di >= len THEN -1
    ELSE LET idx == (selection + di + 1) % len IN
         IF name(Line(idx)) # NoName /\ test(pattern, name(Line(idx))) # <<>>
         THEN idx
         ELSE next_match_scan(di + 1, pattern)

try_select_next_match(pattern) ==
    /\ pc = "idle"
    /\ LET idx == next_match_scan(0, pattern) IN
         IF idx >= 0
         THEN selection' = idx /\ ret' = "true"
         ELSE selection' = selection /\ ret' = "false"
    /\ op' = "try_select_next_match"
    /\ UNCHANGED <<lines, pc, dy, tick>>

-----------------------------------------------------------------------------
(* The tree under any sequence of calls.  The history variables s0, k, arg *)
(* and out are only followed in the specifications of runs and queries     *)
(* further down.                                                           *)
TrySelectCall == (\E key \in KeyArgs : try_select(key)) /\ UNCHANGED <<s0, k, arg, out>>
MoveSelectionCall == (\E d \in Deltas : move_selection(d)) /\ UNCHANGED <<s0, k, arg, out>>
LoopStep == move_selection_loop /\ UNCHANGED <<s0, k, arg, out>>
BestMatchCall ==
    (\E pattern \in Patterns : try_select_best_match(pattern)) /\ UNCHANGED <<s0, k, arg, out>>
NextMatchCall ==
    (\E pattern \in Patterns : try_select_next_match(pattern)) /\ UNCHANGED <<s0, k, arg, out>>

Next ==
    \/ TrySelectCall
    \/ MoveSelectionCall
    \/ LoopStep
    \/ BestMatchCall
    \/ NextMatchCall

Spec == Init /\ [][Next]_vars

-----------------------------------------------------------------------------
(* The same calls with the loop of move_selection scheduled fairly: a call *)
(* in progress keeps running.                                              *)
FairSpec == Spec /\ WF_vars(LoopStep)

(* Runs of move_selection(+1): s0 is the selection the run started from    *)
(* and k the number of calls that have returned since.                     *)
PlusSelect ==
    /\ \E key \in KeyArgs : try_select(key)
    /\ s0' = selection'
    /\ k' = 0
    /\ UNCHANGED <<arg, out>>

PlusMove ==
    /\ k < MaxK
    /\ move_selection(1)
    /\ s0' = s0
    /\ k' = IF pc' = "idle" THEN k + 1 ELSE k
    /\ UNCHANGED <<arg, out>>

PlusLoop ==
    /\ move_selection_loop
    /\ s0' = s0
    /\ k' = IF pc' = "idle" THEN k + 1 ELSE k
    /\ UNCHANGED <<arg, out>>

NextPlus == PlusSelect \/ PlusMove \/ PlusLoop

SpecPlus == Init /\ [][NextPlus]_vars

-----------------------------------------------------------------------------
(* Vocabulary of the properties *)

Indices == 0..(len - 1)
NoPruning == \A i \in Indices : ~IsPruning(i)
HasSelectable == \E i \in Indices : ~IsPruning(i)

(* the mathematical residue of a + b modulo n, for n > 0 *)
Residue(a, b, n) == ((a % n) + (b % n)) % n

(* line i has a name that the pattern matches, and its score *)
Matches(pattern, i) == ~IsPruning(i) /\ pattern[Line(i).content.name] # <<>>
Score(pattern, i) == pattern[Line(i).content.name][1]

-----------------------------------------------------------------------------
(* C1: the selection starts on a non-Pruning line (the root, index 0) and, *)
(* between calls, the selected line is never a Pruning line.               *)
C1_SelectionNeverPruning ==
    (~IsPruning(0) /\ pc = "idle") => ~IsPruning(selection)

(* C2: the selection is always a valid index and no call fails (no panic   *)
(* on arithmetic overflow or on an index out of range).                    *)
C2_InRangeNoFailure ==
    /\ selection \in Indices
    /\ pc # "panic"

(* C3: on a tree with at least one non-Pruning line, a move_selection call *)
(* in progress always leaves its loop.                                     *)
C3_MoveTerminates ==
    (HasSelectable /\ pc = "loop") ~> (pc # "loop")

(* C4: whenever move_selection has returned, the selected line is a File   *)
(* or a Dir, never a Pruning line.                                         *)
C4_MoveLandsOnNamed ==
    (op = "move_selection" /\ ret = "unit")
        => Line(selection).content.type \in {"File", "Dir"}

C4_Witness ==
    /\ op = "move_selection" /\ ret = "unit"
    /\ len = 3
    /\ IsPruning(1) /\ ~IsPruning(2)
    /\ selection = 2

(* C5: on a tree without Pruning lines, move_selection(delta) returns with *)
(* selection = (selection + delta) mod n, for every delta.                 *)
C5_MoveIsModular ==
    [][\A d \in Deltas :
        (NoPruning /\ move_selection(d))
            => (pc' = "idle" /\ selection' = Residue(selection, d, len))]_vars

(* C6: on a tree without Pruning lines, k calls of move_selection(+1) from *)
(* selection s0 leave selection = (s0 + k) mod n.                          *)
C6_PlusOneRun ==
    (NoPruning /\ pc = "idle") => selection = (s0 + k) % len

C6_Witness ==
    /\ NoPruning /\ pc = "idle"
    /\ len = 3 /\ s0 = 1 /\ k = 4 /\ selection = 2

(* C7: try_select(key) returns true and selects the lowest index whose key *)
(* equals key if there is one; otherwise it returns false and leaves the   *)
(* selection unchanged.                                                    *)
C7_TrySelect ==
    [][op' = "try_select" => \A key \in KeyArgs :
        try_select(key) =>
            IF \E i \in Indices : Line(i).key = key
            THEN /\ ret' = "true"
                 /\ Line(selection').key = key
                 /\ \A j \in Indices : Line(j).key = key => selection' =< j
            ELSE /\ ret' = "false"
                 /\ selection' = selection]_vars

C7_Witness ==
    /\ op = "try_select" /\ ret = "true"
    /\ selection = 1
    /\ len = 3 /\ Line(2).key = Line(1).key

(* C8: try_select_best_match(pattern) returns true iff some named line     *)
(* matches with a score > 0, and then the selection is the lowest index    *)
(* among the named lines that reach the maximal score.                     *)
C8_BestMatch ==
    [][op' = "try_select_best_match" => \A pattern \in Patterns :
        try_select_best_match(pattern) =>
            /\ (ret' = "true") <=>
                   (\E i \in Indices : Matches(pattern, i) /\ Score(pattern, i) > 0)
            /\ (ret' = "true") =>
                   /\ Matches(pattern, selection')
                   /\ \A j \in Indices : Matches(pattern, j) =>
                          \/ Score(pattern, j) < Score(pattern, selection')
                          \/ Score(pattern, j) = Score(pattern, selection') /\ selection' =< j]_vars

C8_Witness ==
    /\ op = "try_select_best_match" /\ ret = "true"
    /\ len = 3
    /\ Line(0).content.name = "bar"
    /\ Line(1).content.name = "foo" /\ Line(2).content.name = "foo"
    /\ selection = 1

(* C9: when try_select_best_match(pattern) returns false, the selection is *)
(* what it was before the call.                                            *)
C9_BestMatchFalseKeeps ==
    [][op' = "try_select_best_match" => \A pattern \in Patterns :
        (try_select_best_match(pattern) /\ ret' = "false") => selection' = selection]_vars

C9_Witness ==
    /\ op = "try_select_best_match" /\ ret = "false"
    /\ selection = 2
    /\ ~IsPruning(0) /\ ~IsPruning(1)

(* C10: try_select_next_match(pattern) selects the first index in the      *)
(* cyclic order selection+1, selection+2, ... (mod n) whose line has a     *)
(* name the pattern matches and returns true; if no line of the full cycle *)
(* matches it returns false and leaves the selection unchanged.  It never  *)
(* selects a Pruning line.                                                 *)
C10_NextMatch ==
    [][op' = "try_select_next_match" => \A pattern \in Patterns :
        try_select_next_match(pattern) =>
            IF \E j \in 1..len : Matches(pattern, (selection + j) % len)
            THEN /\ ret' = "true"
                 /\ ~IsPruning(selection')
                 /\ \E j \in 1..len :
                        /\ selection' = (selection + j) % len
                        /\ Matches(pattern, (selection + j) % len)
                        /\ \A i \in 1..(j - 1) : ~Matches(pattern, (selection + i) % len)
            ELSE /\ ret' = "false"
                 /\ selection' = selection]_vars

C10_Witness ==
    /\ op = "try_select_next_match" /\ ret = "true"
    /\ len = 3
    /\ Line(0).content.name = "bar" /\ IsPruning(1) /\ Line(2).content.name = "foo"
    /\ selection = 0

(***************************************************************************)
(* Runs of try_select_next_match with one pattern on an unchanged tree:    *)
(* arg is the pattern of the run, s0 the selection the run started from,   *)
(* k the number of calls made and out the selections they produced.        *)
(***************************************************************************)
InitCycle ==
    /\ NewTree(Trees)
    /\ s0 = 0
    /\ k = 0
    /\ arg \in Patterns
    /\ out = <<>>

CycleSelect ==
    /\ \E key \in KeyArgs : try_select(key)
    /\ s0' = selection'
    /\ k' = 0
    /\ out' = <<>>
    /\ arg' = arg

CycleNext ==
    /\ k < MaxK
    /\ try_select_next_match(arg)
    /\ k' = k + 1
    /\ out' = Append(out, selection')
    /\ UNCHANGED <<s0, arg>>

NextCycle == CycleSelect \/ CycleNext

SpecCycle == InitCycle /\ [][NextCycle]_vars

MatchingLines(pattern) == { i \in Indices : Matches(pattern, i) }

Min(S) == CHOOSE x \in S : \A y \in S : x =< y

(* the matching index that follows s in increasing order, the first one after the last *)
FollowingMatch(pattern, s) ==
    IF \E j \in MatchingLines(pattern) : j > s
    THEN Min({ j \in MatchingLines(pattern) : j > s })
    ELSE Min(MatchingLines(pattern))

(* C11: repeated try_select_next_match calls with one pattern on an        *)
(* unchanged tree visit the matching lines in increasing index order,      *)
(* wrapping from the last to the first: with m >= 1 matching lines every   *)
(* call returns true and moves the selection to the matching index that    *)
(* follows it cyclically, and m calls started on a matching line select    *)
(* every matching line exactly once and end on the line they started from. *)
C11_NextMatchCycles ==
    (k >= 1 /\ MatchingLines(arg) # {}) =>
        /\ ret = "true"
        /\ \A i \in 1..k :
               out[i] = FollowingMatch(arg, IF i = 1 THEN s0 ELSE out[i - 1])
        /\ LET m == Cardinality(MatchingLines(arg)) IN
           (s0 \in MatchingLines(arg) /\ k >= m) =>
               /\ { out[i] : i \in 1..m } = MatchingLines(arg)
               /\ \A i, j \in 1..m : out[i] = out[j] => i = j
               /\ out[m] = s0

C11_Witness ==
    /\ len = 3 /\ k = 2
    /\ MatchingLines(arg) = {0, 2}
    /\ s0 = 0
    /\ out = <<2, 0>>

(***************************************************************************)
(* has_branch: the only reader of left_branchs.  An index past the end of  *)
(* a slice is a panic in Rust; the outcome is "true", "false" or "panic".  *)
(***************************************************************************)
MaxDepth == 2      \* lines are at most this deep where left_branchs is read

(* Mutant of has_branch: a depth equal to the line's depth passes the guard. *)
has_branch_gt(line_index, depth) ==
    IF line_index >= len THEN "false"
    ELSE IF depth > Line(line_index).depth THEN "false"
    ELSE IF depth >= Len(Line(line_index).left_branchs) THEN "panic"
    ELSE IF Line(line_index).left_branchs[depth + 1] THEN "true" ELSE "false"

has_branch(line_index, depth) ==
    IF line_index >= len THEN "false"
    ELSE IF depth >= Line(line_index).depth THEN "false"
    ELSE IF depth >= Len(Line(line_index).left_branchs) THEN "panic"
    ELSE IF Line(line_index).left_branchs[depth + 1] THEN "true" ELSE "false"

has_branch_query(line_index, depth) ==
    /\ pc = "idle"
    /\ op' = "has_branch"
    /\ IF has_branch(line_index, depth) = "panic"
       THEN pc' = "panic" /\ ret' = "none"
       ELSE pc' = pc /\ ret' = has_branch(line_index, depth)
    /\ UNCHANGED <<lines, selection, dy, tick>>

HasBranchCall ==
    /\ \E line_index \in 0..MaxLines, depth \in 0..MaxDepth :
           has_branch_query(line_index, depth)
    /\ UNCHANGED <<s0, k, arg, out>>

(* lines as the builder leaves them: made by create, keyed by fill_key,    *)
(* with the branch flags then set through the public field                 *)
BranchLines(depth) ==
    { [fill_key(create("bar", depth, Metadata("bar")),
                [i \in 1..(depth + 1) |-> IF i = 1 THEN 0 ELSE 1], depth)
          EXCEPT !.left_branchs = b] : b \in [1..depth -> BOOLEAN] }

BranchTrees ==
    UNION { { <<root>> \o rest :
                root \in BranchLines(0),
                rest \in [1..(n - 1) -> UNION { BranchLines(d) : d \in 1..MaxDepth }] }
            : n \in 1..MaxLines }

InitBranch ==
    /\ NewTree(BranchTrees)
    /\ s0 = 0
    /\ k = 0
    /\ arg = <<>>
    /\ out = <<>>

NextBranch == HasBranchCall

SpecBranch == InitBranch /\ [][NextBranch]_vars

(* C12: has_branch(i, d) never fails; it returns false for every           *)
(* i >= lines.len() and for every d >= lines[i].depth, and for an in-range *)
(* i and d < depth it returns lines[i].left_branchs[d] (every line has     *)
(* exactly depth flags).                                                   *)
C12_HasBranch ==
    [][op' = "has_branch" =>
        \A line_index \in 0..MaxLines, depth \in 0..MaxDepth :
            has_branch_query(line_index, depth) =>
                /\ pc' # "panic"
                /\ \A i \in Indices : Len(Line(i).left_branchs) = Line(i).depth
                /\ IF line_index \in Indices /\ depth < Line(line_index).depth
                   THEN ret' = "true" <=> Line(line_index).left_branchs[depth + 1]
                   ELSE ret' = "false"]_vars

C12_Witness ==
    /\ op = "has_branch" /\ ret = "true"
    /\ len = 3
    /\ Line(1).depth = 2 /\ Line(1).left_branchs = <<FALSE, TRUE>>
    /\ Line(2).left_branchs = <<FALSE>>

(***************************************************************************)
(* The pure functions of the file, each applied once to an input drawn at  *)
(* the start: arg is the input and out the value returned.                 *)
(***************************************************************************)
MaxIndex == 70     \* ranks 0..MaxIndex are encoded (the codec covers 1..60)

NoTree ==
    /\ lines = <<>>
    /\ selection = 0
    /\ pc = "idle"
    /\ dy = 0
    /\ tick = 0
    /\ op = "new"
    /\ ret = "none"
    /\ s0 = 0
    /\ k = 0
    /\ out = <<>>

(* ranks whose low byte falls in 1..60 although the rank does not *)
WideIndices == { 256 + r : r \in {1, 27, 37, 60} }

InitCodec == NoTree /\ arg \in (0..MaxIndex) \cup WideIndices

IndexToCharCall ==
    /\ op = "new"
    /\ op' = "index_to_char"
    /\ out' = index_to_char(arg)
    /\ UNCHANGED <<lines, selection, pc, dy, tick, ret, s0, k, arg>>

NextCodec == IndexToCharCall

SpecCodec == InitCodec /\ [][NextCodec]_vars

(* the code points of 'a'..'z', '0'..'9' and 'A'..'X' *)
LowerCase == << 97,  98,  99, 100, 101, 102, 103, 104, 105, 106, 107, 108, 109,
               110, 111, 112, 113, 114, 115, 116, 117, 118, 119, 120, 121, 122>>
Digits == <<48, 49, 50, 51, 52, 53, 54, 55, 56, 57>>
UpperCase == <<65, 66, 67, 68, 69, 70, 71, 72, 73, 74, 75, 76,
               77, 78, 79, 80, 81, 82, 83, 84, 85, 86, 87, 88>>
Blank == <<32>>

(* C13: the key codec maps a rank r to 'a'..'z' for r in 1..26, to         *)
(* '0'..'9' for r in 27..36, to 'A'..'X' for r in 37..60 and to a blank    *)
(* for every other r (0 and r > 60); it is injective on 1..60.             *)
C13_Codec ==
    op = "index_to_char" =>
        /\ arg \in 1..26 => out = LowerCase[arg]
        /\ arg \in 27..36 => out = Digits[arg - 26]
        /\ arg \in 37..60 => out = UpperCase[arg - 36]
        /\ arg \notin 1..60 => out = Blank[1]
        /\ arg \in 1..60 => \A r \in 1..60 : index_to_char(r) = out => r = arg

C13_Witness ==
    /\ op = "index_to_char"
    /\ arg = 36
    /\ out = Digits[10]

(***************************************************************************)
(* fill_key on a fresh line, for a path and for the path that differs from *)
(* it in the last rank only: arg.v is the path, arg.r2 the other last      *)
(* rank, out the two keys.                                                 *)
(***************************************************************************)
MaxKeyDepth == 2   \* paths hold an ignored entry and up to this many ranks

LetterRanks == 1..26
InnerRanks == {1, 26}        \* the ranks tried above the last one
IgnoredEntries == {0, 61}    \* values tried for the entry at index 0

KeyPaths ==
    UNION { { <<e>> \o inner \o (IF d = 0 THEN <<>> ELSE <<r>>) :
                e \in IgnoredEntries,
                inner \in [1..(d - 1) -> InnerRanks],
                r \in LetterRanks }
            : d \in 0..MaxKeyDepth }

InitKey == NoTree /\ arg \in [v : KeyPaths, r2 : LetterRanks]

FreshLine(depth) == create("bar", depth, Metadata("bar"))

WithLastRank(v, r) == IF Len(v) = 1 THEN v ELSE [v EXCEPT ![Len(v)] = r]

FillKeyCall ==
    /\ op = "new"
    /\ op' = "fill_key"
    /\ out' = << fill_key(FreshLine(Len(arg.v) - 1), arg.v, Len(arg.v) - 1).key,
                 fill_key(FreshLine(Len(arg.v) - 1), WithLastRank(arg.v, arg.r2),
                          Len(arg.v) - 1).key >>
    /\ UNCHANGED <<lines, selection, pc, dy, tick, ret, s0, k, arg>>

NextKey == FillKeyCall

SpecKey == InitKey /\ [][NextKey]_vars

(* a < b for strings, as Rust compares them: at the first difference, a    *)
(* proper prefix being smaller                                             *)
LexLess(a, b) ==
    \E i \in 1..(Len(b)) :
        /\ \A j \in 1..(i - 1) : j =< Len(a) /\ a[j] = b[j]
        /\ (i > Len(a) \/ a[i] < b[i])

(* C14: for a path [_, r1, ..., rd] with every ri in 1..26, fill_key(path, *)
(* d) on a fresh line gives a key of length d made of lowercase letters    *)
(* only, whose i-th character encodes ri (the entry at index 0 is          *)
(* ignored); the keys of two paths that differ only in the last rank       *)
(* compare lexicographically as those ranks do.                            *)
C14_FillKey ==
    op = "fill_key" =>
        LET d == Len(arg.v) - 1 IN
        /\ Len(out[1]) = d
        /\ \A i \in 1..d : out[1][i] = LowerCase[arg.v[i + 1]]
        /\ d >= 1 =>
              /\ LexLess(out[1], out[2]) <=> arg.v[d + 1] < arg.r2
              /\ LexLess(out[2], out[1]) <=> arg.r2 < arg.v[d + 1]
              /\ out[1] = out[2] <=> arg.r2 = arg.v[d + 1]

C14_Witness ==
    /\ op = "fill_key"
    /\ arg.v = <<61, 26, 2>> /\ arg.r2 = 3
    /\ out = << <<122, 98>>, <<122, 99>> >>

(***************************************************************************)
(* TreeLine::create for a path, a depth, the path's real type and whether  *)
(* the metadata query fails: arg holds the four, out is the line made.     *)
(***************************************************************************)
MaxCreateDepth == 4    \* lines are created at depths 0..MaxCreateDepth

InitCreate ==
    NoTree /\ arg \in [ path : Paths \cup {".."}, depth : 0..MaxCreateDepth,
                        real : {"dir", "file"}, fails : BOOLEAN ]

(* what fs::metadata reports *)
Outcome(real, fails) == IF fails THEN "err" ELSE real

CreateCall ==
    /\ op = "new"
    /\ op' = "create"
    /\ out' = create(arg.path, arg.depth, Outcome(arg.real, arg.fails))
    /\ UNCHANGED <<lines, selection, pc, dy, tick, ret, s0, k, arg>>

NextCreate == CreateCall

SpecCreate == InitCreate /\ [][NextCreate]_vars

(* C15: TreeLine::create(path, depth) never fails.  When the metadata      *)
(* query fails the line has has_error = true and content File, whatever    *)
(* the path's real type; when it succeeds has_error is false and the       *)
(* content is Dir with unlisted = 0 for a directory and File otherwise.    *)
(* In every case the key is empty and left_branchs has exactly depth       *)
(* entries, all false.                                                     *)
C15_Create ==
    op = "create" =>
        /\ IF arg.fails
           THEN out.has_error /\ out.content.type = "File"
           ELSE /\ ~out.has_error
                /\ IF arg.real = "dir"
                   THEN out.content.type = "Dir" /\ out.content.unlisted = 0
                   ELSE out.content.type = "File"
        /\ out.key = <<>>
        /\ Len(out.left_branchs) = arg.depth
        /\ \A i \in 1..arg.depth : out.left_branchs[i] = FALSE

C15_Witness ==
    /\ op = "create"
    /\ arg.fails /\ arg.real = "dir" /\ arg.depth = 2
    /\ out.has_error /\ out.content = File("foo")
    /\ out.left_branchs = <<FALSE, FALSE>>

(***************************************************************************)
(* move_selection on trees that hold Pruning lines only.  No builder is    *)
(* known to make one; Tree's fields are public, so one can be put together.*)
(***************************************************************************)
PrunedTrees ==
    UNION { { <<root>> \o rest :
                root \in { fill_key(l, <<0>>, 0) : l \in PrunedLines(0) },
                rest \in [1..(n - 1) ->
                             UNION { { fill_key(l, <<0, r>>, 1) : l \in PrunedLines(1) }
                                     : r \in 1..MaxRank }] }
            : n \in 1..MaxLines }

InitPruned ==
    /\ NewTree(PrunedTrees)
    /\ s0 = 0
    /\ k = 0
    /\ arg = <<>>
    /\ out = <<>>

NextPruned == TrySelectCall \/ MoveSelectionCall \/ LoopStep

SpecPruned == InitPruned /\ [][NextPruned]_vars

(* C16: on a non-empty tree in which every line is Pruning,                *)
(* move_selection(delta) never terminates, for any delta: once called it   *)
(* is inside its loop for ever, neither returning nor failing.             *)
C16_PrunedNeverEnds ==
    op = "move_selection" => pc = "loop"

(* what does hold on these trees: the call never returns normally *)
PrunedNeverReturns ==
    op = "move_selection" => pc # "idle"

(***************************************************************************)
(* The queries key(), selected_line() and root(): each hands back a value  *)
(* (kept in ret) and takes &self.  has_branch is the fourth query.         *)
(***************************************************************************)
(* Mutant of key_query: the key is moved out of the line instead of being  *)
(* copied, which leaves the selected line with an empty key.               *)
key_query_take ==
    /\ pc = "idle"
    /\ op' = "key"
    /\ ret' = Line(selection).key
    /\ lines' = [lines EXCEPT ![selection + 1].key = <<>>]
    /\ UNCHANGED <<selection, pc, dy, tick>>

key_query ==
    /\ pc = "idle"
    /\ op' = "key"
    /\ ret' = Line(selection).key
    /\ UNCHANGED <<lines, selection, pc, dy, tick>>

selected_line_query ==
    /\ pc = "idle"
    /\ op' = "selected_line"
    /\ ret' = Line(selection)
    /\ UNCHANGED <<lines, selection, pc, dy, tick>>

root_query ==
    /\ pc = "idle"
    /\ op' = "root"
    /\ ret' = Line(0).path
    /\ UNCHANGED <<lines, selection, pc, dy, tick>>

KeyCall == key_query /\ UNCHANGED <<s0, k, arg, out>>
SelectedLineCall == selected_line_query /\ UNCHANGED <<s0, k, arg, out>>
RootCall == root_query /\ UNCHANGED <<s0, k, arg, out>>

NextAll ==
    \/ TrySelectCall \/ MoveSelectionCall \/ LoopStep \/ BestMatchCall \/ NextMatchCall
    \/ HasBranchCall \/ KeyCall \/ SelectedLineCall \/ RootCall

SpecAll == Init /\ [][NextAll]_vars

Queries == {"has_branch", "key", "selected_line", "root"}

(* C17: no operation of Tree changes the line set.  try_select,            *)
(* move_selection, try_select_best_match and try_select_next_match leave   *)
(* the number of lines and every line's key, depth, left_branchs, content  *)
(* and has_error as they were (only selection may change); the queries     *)
(* has_branch, key, selected_line and root change nothing at all, the      *)
(* selection included.                                                     *)
C17_Frame ==
    [][/\ Len(lines') = Len(lines)
       /\ \A i \in 1..Len(lines) :
              /\ lines'[i].key = lines[i].key
              /\ lines'[i].depth = lines[i].depth
              /\ lines'[i].left_branchs = lines[i].left_branchs
              /\ lines'[i].content = lines[i].content
              /\ lines'[i].has_error = lines[i].has_error
       /\ op' \in Queries => selection' = selection]_vars

C17_Witness ==
    /\ op = "key"
    /\ len = 3 /\ selection = 2
    /\ ret = <<97>>
    /\ Line(2).key = <<97>> /\ Line(1).key = <<98>>

(* C18: try_select_next_match examines the currently selected line last,   *)
(* after every other line of the cycle: if any other line matches, the     *)
(* selection moves to a different index; if the selected line is the only  *)
(* matching line, the call returns true and the selection keeps its value. *)
C18_CurrentLineLast ==
    [][op' = "try_select_next_match" => \A pattern \in Patterns :
        try_select_next_match(pattern) =>
            /\ (\E j \in Indices \ {selection} : Matches(pattern, j)) =>
                   /\ ret' = "true"
                   /\ selection' # selection
                   /\ Matches(pattern, selection')
            /\ MatchingLines(pattern) = {selection} =>
                   /\ ret' = "true"
                   /\ selection' = selection]_vars

C18_Witness ==
    /\ op = "try_select_next_match" /\ ret = "true"
    /\ len = 3
    /\ selection = 1
    /\ IsPruning(2) /\ Line(1).content.name = "bar" /\ Line(0).content.name = "foo"

(***************************************************************************)
(* Re-selection by key across a rebuild.  The caller remembers key() of    *)
(* the selected line (arg), the builder hands over a new Tree in which a   *)
(* line has gone or a line has come, and the caller calls try_select(arg). *)
(* k counts the rebuilds.                                                  *)
(***************************************************************************)
MaxRebuilds == 1   \* at most this many rebuilds are followed

Removed(t, i) == [j \in 1..(Len(t) - 1) |-> IF j < i THEN t[j] ELSE t[j + 1]]

Inserted(t, i, l) ==
    [j \in 1..(Len(t) + 1) |-> IF j < i THEN t[j] ELSE IF j = i THEN l ELSE t[j - 1]]

Rebuilt(t) ==
    {t} \cup { Removed(t, i) : i \in 2..Len(t) }
        \cup { Inserted(t, i, l) : i \in 2..(IF Len(t) < MaxLines THEN Len(t) + 1 ELSE 1),
                                   l \in ChildLines }

Rebuild ==
    /\ pc = "idle"
    /\ k < MaxRebuilds
    /\ arg' = Line(selection).key
    /\ lines' \in Rebuilt(lines)
    /\ selection' = 0
    /\ op' = "new"
    /\ ret' = "none"
    /\ k' = k + 1
    /\ UNCHANGED <<pc, dy, tick, s0, out>>

StepCall ==
    /\ \E d \in {-1, 1} : move_selection(d)
    /\ UNCHANGED <<s0, k, arg, out>>

NextRebuild == TrySelectCall \/ StepCall \/ LoopStep \/ Rebuild

SpecRebuild == Init /\ [][NextRebuild]_vars

DistinctKeys == \A i, j \in Indices : Line(i).key = Line(j).key => i = j

(* C19: re-selection by key round-trips.  In a tree whose keys are         *)
(* pairwise distinct, in any state the operations reach,                   *)
(* try_select(tree.key()) returns true and leaves the selection where it   *)
(* is; and when the tree before a rebuild and the tree after it both hold  *)
(* a line with key k, try_select(k) on the second selects the line that    *)
(* carries k, whatever its index and whatever the selection was.           *)
C19_KeyRoundTrip ==
    [][op' = "try_select" => \A key \in KeyArgs :
        try_select(key) =>
            /\ (DistinctKeys /\ key = Line(selection).key) =>
                   /\ ret' = "true"
                   /\ selection' = selection
            /\ (k >= 1 /\ key = arg /\ DistinctKeys
                    /\ \E i \in Indices : Line(i).key = arg) =>
                   /\ ret' = "true"
                   /\ Line(selection').key = arg]_vars

C19_Witness ==
    /\ k = 1
    /\ op = "try_select" /\ ret = "true"
    /\ DistinctKeys
    /\ len = 3
    /\ arg = <<98>>
    /\ selection = 2 /\ Line(2).key = <<98>>

(***************************************************************************)
(* A single step and the opposite step, from a selection on a line that is *)
(* not Pruning: s0 is that selection, arg holds the first step's delta and  *)
(* k the number of the two calls that have returned.                       *)
(***************************************************************************)
Wander ==
    /\ arg = <<>>
    /\ \/ \E key \in KeyArgs : try_select(key)
       \/ move_selection(1)
       \/ move_selection_loop
    /\ UNCHANGED <<s0, k, arg, out>>

StepThere ==
    /\ k = 0
    /\ arg = <<>>
    /\ ~IsPruning(selection)
    /\ \E d \in {-1, 1} : move_selection(d) /\ arg' = <<d>>
    /\ s0' = selection
    /\ k' = IF pc' = "idle" THEN 1 ELSE 0
    /\ out' = out

StepLoop ==
    /\ arg # <<>>
    /\ move_selection_loop
    /\ k' = IF pc' = "idle" THEN k + 1 ELSE k
    /\ UNCHANGED <<s0, arg, out>>

StepBack ==
    /\ k = 1
    /\ move_selection(-arg[1])
    /\ k' = IF pc' = "idle" THEN 2 ELSE 1
    /\ UNCHANGED <<s0, arg, out>>

NextRoundTrip == Wander \/ StepThere \/ StepLoop \/ StepBack

SpecRoundTrip == Init /\ [][NextRoundTrip]_vars

(* C20: a forward and a backward single step are inverse to each other:    *)
(* on any tree (Pruning lines allowed), from any selection s on a line     *)
(* that is not Pruning, move_selection(+1) followed by move_selection(-1)  *)
(* returns the selection to s, and so does -1 followed by +1; neither call *)
(* fails.                                                                  *)
C20_StepsInverse ==
    /\ arg # <<>> => pc # "panic"
    /\ k = 2 => selection = s0

C20_Witness ==
    /\ k = 2 /\ arg = <<-1>>
    /\ len = 3 /\ IsPruning(1)
    /\ s0 = 0 /\ selection = 0

====
